---- MODULE Spec2Model ----
(***************************************************************************)
(* LoadExternalScheduling (src/xdist/scheduler/loadexternal.py): the scope *)
(* table loaded at construction, the _split_scope fallback chain, and the  *)
(* collection registry / work-unit pool / low-watermark dispatcher that    *)
(* the class inherits from LoadScopeScheduling.                            *)
(*                                                                         *)
(* Strings are sequences of one-character strings, so that index("["),     *)
(* split("::") and "::".join() are computed character by character.       *)
(***************************************************************************)
EXTENDS Integers, Sequences, FiniteSets, TLC

\* ---------------------------------------------------------------- bounds
\* longest node id drawn as an input, counted in tokens (a name character,
\* "[" or "::")
MaxTokens == 5
\* most rows of a scopes file drawn as an input
MaxRows == 2
\* most entries of a scope table drawn as an input of _split_scope
MaxEntries == 2
\* most nodes that take part in a run
MaxNodes == 2

\* ------------------------------------------------------- python strings
\* Python's None, as returned by dict.get on a missing key
None == <<"None">>

\* open(name) on a name no file has: there are no rows to read
NoFile == <<<<None>>>>

\* the separator "::"
SEP == <<":", ":">>

\* the empty string
Empty == <<>>

\* `if x:` on a str-or-None value
NotNone(x) == x # None

\* `if scope:` (line 82): neither None nor the empty string
Truthy(x) == x # None /\ Len(x) > 0

\* s[:n] (0 <= n <= len(s))
Take(s, n) == SubSeq(s, 1, n)

\* s[n:] (0 <= n <= len(s))
Drop(s, n) == SubSeq(s, n + 1, Len(s))

\* s.find(sub), 1-based; 0 when sub does not occur (str.index raises ValueError)
Find(s, sub) ==
    LET hits == { i \in 1..(Len(s) - Len(sub) + 1) : SubSeq(s, i, i + Len(sub) - 1) = sub }
    IN  IF hits = {} THEN 0 ELSE CHOOSE i \in hits : \A j \in hits : i <= j

\* s.split(sep): left-to-right, non-overlapping; always at least one part
RECURSIVE Split(_, _)
Split(s, sep) ==
    LET i == Find(s, sep)
    IN  IF i = 0 THEN <<s>>
        ELSE <<Take(s, i - 1)>> \o Split(Drop(s, i - 1 + Len(sep)), sep)

\* sep.join(parts)
RECURSIVE Join(_, _)
Join(sep, parts) ==
    IF Len(parts) = 0 THEN Empty
    ELSE IF Len(parts) = 1 THEN parts[1]
    ELSE parts[1] \o sep \o Join(sep, Tail(parts))

\* parts[:-1]
ButLast(parts) == IF Len(parts) = 0 THEN parts ELSE SubSeq(parts, 1, Len(parts) - 1)

\* d.get(k)
Get(d, k) == IF k \in DOMAIN d THEN d[k] ELSE None

\* d.setdefault(k, v): the first value given for a key is kept
PutIfAbsent(d, k, v) ==
    [x \in (DOMAIN d) \cup {k} |-> IF x \in DOMAIN d THEN d[x] ELSE v]

\* d[k] = v
Put(d, k, v) == [x \in (DOMAIN d) \cup {k} |-> IF x = k THEN v ELSE d[x]]

\* {}
EmptyDict == [x \in {} |-> Empty]

VARIABLES
    pc,              \* "new" before __init__, then "constructed" or "failed"
    scope_filename,  \* config.getvalue("scopes"): None, "" or a file name
    scope_file,      \* the rows csv.reader yields from that file; NoFile: no such file
    scopes,          \* self.scopes
    log,             \* the messages given to self.log by __init__
    rows_read,       \* how many rows __init__ took from the reader
    error,           \* the exception __init__ raised, or None
    nodeid,          \* the argument of the _split_scope call, or None
    scope,           \* what that call returned; None before it returns
    lookups          \* the self.scopes.get calls that call made, in order

VARIABLES
    numnodes,        \* how many nodes are expected to submit a collection
    watermark,       \* the low-watermark W
    registry,        \* "Collecting", "Verified" or "Failed"
    submissions,     \* the collections submitted, in arrival order, each with its node
    collection,      \* the canonical collection; empty until Verified
    report,          \* the mismatch reported on Failed: the node and the difference
    workqueue,       \* the pool: the unassigned work units, oldest first
    nodes,           \* the registered nodes that have not disconnected, in order
    gone,            \* the nodes that have disconnected
    pending,         \* per node, the scope keys of the units sent to it and not complete
    sent,            \* the sendUnit calls made, in order
    done,            \* the units marked complete, each with its node
    finished,        \* the nodes marked Finished
    twin             \* a second run's pool, pending sets and sendUnit calls

ctorVars == <<pc, scope_filename, scope_file, scopes, log, rows_read, error>>
callVars == <<nodeid, scope, lookups>>
confVars == <<numnodes, watermark>>
schedVars == <<registry, submissions, collection, report, workqueue, nodes, gone,
               pending, sent, done, finished, twin>>
vars == <<ctorVars, callVars, confVars, schedVars>>

\* ------------------------------------------------------------- __init__
IgnoredRow == "row in durations file doesn't have exactly 2 columns, ignoring"

\* the same with `len(row) < 2` for `len(row) != 2`: a longer row is stored
ReadRowAtLeastTwo(st, row) ==
    IF Len(row) < 2
    THEN [scopes |-> st.scopes, log |-> Append(st.log, IgnoredRow)]
    ELSE [scopes |-> Put(st.scopes, row[1], row[2]), log |-> st.log]

\* one pass of the body of `for row in scope_file_reader` (lines 45-52)
ReadRow(st, row) ==
    IF Len(row) # 2
    THEN [scopes |-> st.scopes, log |-> Append(st.log, IgnoredRow)]
    ELSE [scopes |-> Put(st.scopes, row[1], row[2]), log |-> st.log]

\* the loop of lines 44-52 over the rows of the file, from self.scopes = {}
RECURSIVE ReadRows(_, _)
ReadRows(st, rows) ==
    IF rows = <<>> THEN st ELSE ReadRows(ReadRow(st, Head(rows)), Tail(rows))

LoadScopes(rows) == ReadRows([scopes |-> EmptyDict, log |-> <<>>], rows)

\* the same with `is None` for `not`: only an unset name
UnsetName(name) == name = None

\* line 39: `not scope_filename`
NoScopesFile(name) == ~Truthy(name)

\* LoadExternalScheduling.__init__ (lines 28-52)
Construct ==
    /\ pc = "new"
    /\ IF NoScopesFile(scope_filename)
       THEN /\ pc' = "failed"
            /\ error' = "RuntimeError: no scopes file specified"
            /\ UNCHANGED <<scopes, log, rows_read>>
       ELSE IF scope_file = NoFile
       THEN /\ pc' = "failed"
            /\ error' = "OSError"
            /\ UNCHANGED <<scopes, log, rows_read>>
       ELSE /\ pc' = "constructed"
            /\ scopes' = LoadScopes(scope_file).scopes
            /\ log' = LoadScopes(scope_file).log
            /\ rows_read' = Len(scope_file)
            /\ UNCHANGED error
    /\ UNCHANGED <<scope_filename, scope_file, callVars, confVars, schedVars>>

\* --------------------------------------------------------- _split_scope
\* the same with rindex for index: the id up to its last "["
StripFromLastBracket(id) ==
    LET at == { i \in 1..Len(id) : id[i] = "[" }
    IN  IF at = {} THEN id ELSE Take(id, (CHOOSE i \in at : \A j \in at : j <= i) - 1)

\* lines 86-88: nodeid[:nodeid.index("[")], or nodeid as it is on ValueError
StripParametrization(id) ==
    LET parametrized_start_idx == Find(id, <<"[">>)
    IN  IF parametrized_start_idx = 0 THEN id ELSE Take(id, parametrized_start_idx - 1)

\* the same with [0] for [:-1]: the first segment alone
KeepFirstSegment(id) == Split(id, SEP)[1]

\* the same with [1:] for [:-1]: all segments but the first
DropFirstSegment(id) ==
    LET parts == Split(id, SEP)
    IN  Join(SEP, IF Len(parts) = 0 THEN parts ELSE SubSeq(parts, 2, Len(parts)))

\* lines 95 and 101: "::".join(nodeid.split("::")[:-1])
StripLastSegment(id) == Join(SEP, ButLast(Split(id, SEP)))

\* a call that stores what it returns under the id it was given
ScopesWithResult(table, id, ret) == Put(table, id, ret)

\* self.scopes after a call of _split_scope: the call only reads it, with
\* self.scopes.get (lines 81, 90, 96, 103)
ScopesAfterCall(table, id, ret) == table

\* LoadExternalScheduling._split_scope (lines 80-108); the local `nodeid` is
\* reassigned at lines 88, 95 and 101, and it is that last value line 108
\* returns. ret is the value returned, gets the keys given to self.scopes.get,
\* in order, each with the step of the chain that looked it up, table is
\* self.scopes after the call.
split_scope_run(table, id) ==
    LET scope1  == Get(table, id)
        has_par == Find(id, <<"[">>) # 0
        nodeid1 == StripParametrization(id)
        scope2  == Get(table, nodeid1)
        nodeid2 == StripLastSegment(nodeid1)
        scope3  == Get(table, nodeid2)
        nodeid3 == StripLastSegment(nodeid2)
        scope4  == Get(table, nodeid3)
        get1    == <<[step |-> 1, key |-> id]>>
        get2    == IF has_par THEN Append(get1, [step |-> 2, key |-> nodeid1]) ELSE get1
        get3    == Append(get2, [step |-> 3, key |-> nodeid2])
        get4    == IF Len(nodeid3) > 0
                   THEN Append(get3, [step |-> 4, key |-> nodeid3]) ELSE get3
        out     == IF Truthy(scope1) THEN [ret |-> scope1, gets |-> get1]
                   ELSE IF has_par /\ Truthy(scope2) THEN [ret |-> scope2, gets |-> get2]
                   ELSE IF Truthy(scope3) THEN [ret |-> scope3, gets |-> get3]
                   ELSE IF Len(nodeid3) > 0 /\ Truthy(scope4)
                   THEN [ret |-> scope4, gets |-> get4]
                   ELSE [ret |-> nodeid3, gets |-> get4]
    IN  [ret |-> out.ret, gets |-> out.gets, table |-> ScopesAfterCall(table, id, out.ret)]

\* the value _split_scope returns
split_scope(table, id) == split_scope_run(table, id).ret

\* the call self._split_scope(nodeid) on the constructed scheduler
SplitScopeCall ==
    /\ pc = "constructed"
    /\ nodeid # None
    /\ scope = None
    /\ LET run == split_scope_run(scopes, nodeid)
       IN  /\ scope' = run.ret
           /\ lookups' = run.gets
           /\ scopes' = run.table
    /\ UNCHANGED <<pc, scope_filename, scope_file, log, rows_read, error>>
    /\ UNCHANGED <<nodeid, confVars, schedVars>>

\* ------------------------------------------- scheduler (spec 4.2 - 4.4)
\* The registry, the pool and the dispatcher are those LoadExternalScheduling
\* inherits from LoadScopeScheduling; they are modelled from the design in
\* spec.md, with the scope of each test taken from _split_scope.

\* the nodes that may take part in a run
Nodes == 1..MaxNodes

\* the elements of a list, as a set
Range(q) == { q[i] : i \in 1..Len(q) }

\* the symmetric difference of two sets
SymDiff(A, B) == (A \ B) \cup (B \ A)

\* no mismatch reported
NoReport == [node |-> 0, diff |-> {}]

\* the second run before it has begun: no pool, nothing pending, nothing sent
NoTwin == [begun |-> FALSE, queue |-> <<>>, pending |-> [n \in Nodes |-> {}],
           sent |-> <<>>]

\* a pool construction that puts each new unit before the older ones
RECURSIVE BuildUnitsNewestFirst(_, _, _)
BuildUnitsNewestFirst(table, ids, units) ==
    IF ids = <<>> THEN units
    ELSE LET id  == Head(ids)
             run == split_scope_run(table, id)
             at  == { i \in 1..Len(units) : units[i].scope = run.ret }
         IN  IF at = {}
             THEN BuildUnitsNewestFirst(run.table, Tail(ids),
                                        <<[scope |-> run.ret, ids |-> <<id>>]>> \o units)
             ELSE BuildUnitsNewestFirst(run.table, Tail(ids),
                                        [units EXCEPT ![CHOOSE i \in at : TRUE].ids = Append(@, id)])

\* WorkUnitPool construction (spec 4.3): walk the collection in order, resolve the
\* scope key of each id, append the id to the unit of that key, creating the
\* unit on first sight
RECURSIVE BuildUnits(_, _, _)
BuildUnits(table, ids, units) ==
    IF ids = <<>> THEN units
    ELSE LET id  == Head(ids)
             run == split_scope_run(table, id)
             key == run.ret
             at  == { i \in 1..Len(units) : units[i].scope = key }
         IN  IF at = {}
             THEN BuildUnits(run.table, Tail(ids),
                             Append(units, [scope |-> key, ids |-> <<id>>]))
             ELSE BuildUnits(run.table, Tail(ids),
                             [units EXCEPT ![CHOOSE i \in at : TRUE].ids = Append(@, id)])

\* self.scopes after that walk: after _split_scope was called on each id in turn
RECURSIVE ScopesAfterBuild(_, _)
ScopesAfterBuild(table, ids) ==
    IF ids = <<>> THEN table
    ELSE ScopesAfterBuild(split_scope_run(table, Head(ids)).table, Tail(ids))

\* pendingCount() of spec 4.3
PendingCount(queue) == Len(queue)

\* a refill that sends the oldest unit but takes the newest out of the pool
RECURSIVE RefillKeeping(_, _, _)
RefillKeeping(st, n, W) ==
    IF Cardinality(st.pending[n]) < W /\ PendingCount(st.queue) > 0
    THEN RefillKeeping([queue   |-> ButLast(st.queue),
                        pending |-> [st.pending EXCEPT ![n] = @ \cup {st.queue[1].scope}],
                        sent    |-> Append(st.sent, [node |-> n, scope |-> st.queue[1].scope,
                                                     ids |-> st.queue[1].ids])],
                       n, W)
    ELSE st

\* a refill that sends one unit at most
RefillOnce(st, n, W) ==
    IF Cardinality(st.pending[n]) < W /\ PendingCount(st.queue) > 0
    THEN [queue   |-> Tail(st.queue),
          pending |-> [st.pending EXCEPT ![n] = @ \cup {st.queue[1].scope}],
          sent    |-> Append(st.sent, [node |-> n, scope |-> st.queue[1].scope,
                                       ids |-> st.queue[1].ids])]
    ELSE st

\* the dispatcher's refill of node n (spec 4.4): while n holds fewer than W
\* pending units and the pool is not empty, takeNext() and send the unit to n.
\* st holds the pool, the pending sets and the sendUnit calls.
RECURSIVE Refill(_, _, _)
Refill(st, n, W) ==
    IF Cardinality(st.pending[n]) < W /\ PendingCount(st.queue) > 0
    THEN LET unit == Head(st.queue)
         IN  Refill([queue   |-> Tail(st.queue),
                     pending |-> [st.pending EXCEPT ![n] = @ \cup {unit.scope}],
                     sent    |-> Append(st.sent, [node |-> n, scope |-> unit.scope,
                                                  ids |-> unit.ids])],
                    n, W)
    ELSE st

\* one unit at most to each node, in registration order
RECURSIVE OneEach(_, _, _)
OneEach(st, ns, W) ==
    IF ns = <<>> THEN st ELSE OneEach(RefillOnce(st, Head(ns), W), Tail(ns), W)

\* initial batches dealt one unit at a time, node after node
RECURSIVE RefillAllInTurn(_, _, _)
RefillAllInTurn(st, ns, W) ==
    LET dealt == OneEach(st, ns, W)
    IN  IF dealt = st THEN st ELSE RefillAllInTurn(dealt, ns, W)

\* the initial batches: the refill of each registered node, in registration order
RECURSIVE RefillAll(_, _, _)
RefillAll(st, ns, W) ==
    IF ns = <<>> THEN st ELSE RefillAll(Refill(st, Head(ns), W), Tail(ns), W)

\* agreement as equality of the lists, order included
SameListAsFirst(coll, subs) ==
    subs = <<>> \/ coll = subs[1].collection

\* whether a submitted collection agrees with the first one submitted
AgreesWithFirst(coll, subs) ==
    subs = <<>> \/ Range(coll) = Range(subs[1].collection)

\* verification as soon as one collection is in
SomeSubmitted(subs) == Len(subs) >= 1

\* whether every expected node has submitted its collection
AllSubmitted(subs) == Len(subs) = numnodes

\* the list of the node that submitted last
OrderOfLast(subs) == subs[Len(subs)].collection

\* the canonical ordering frozen at verification: the list of the node that
\* submitted first (spec 4.2)
CanonicalOrder(subs) == subs[1].collection

\* A mismatch is fatal (spec 7): the run aborts, and of the events only further
\* submissions are still looked at, which change nothing.

\* onNodeRegistered(n): the node state is created and the node is given units up
\* to the watermark, or until the pool is empty
NodeRegistered(n) ==
    /\ pc = "constructed"
    /\ registry # "Failed"
    /\ n \notin Range(nodes) \cup gone
    /\ LET st == Refill([queue |-> workqueue, pending |-> pending, sent |-> sent],
                        n, watermark)
       IN  /\ workqueue' = st.queue
           /\ pending' = st.pending
           /\ sent' = st.sent
    /\ nodes' = Append(nodes, n)
    /\ UNCHANGED <<ctorVars, callVars, confVars, registry, submissions, collection,
                   report, gone, done, finished, twin>>

\* submitCollection(n, coll), spec 4.2, from a registered node: a collection that is not set-equal to the
\* first one fails the registry at once; the submission that completes the
\* expected count verifies it, freezes the first submitter's order, builds the
\* pool and hands out the initial batches
SubmitCollection(n, coll) ==
    /\ pc = "constructed"
    /\ n \in Range(nodes)
    /\ \A i \in 1..Len(submissions) : submissions[i].node # n
    /\ IF registry # "Collecting"
       THEN UNCHANGED <<registry, submissions, collection, report, workqueue,
                        pending, sent, scopes>>
       ELSE LET subs == Append(submissions, [node |-> n, collection |-> coll])
            IN  /\ submissions' = subs
                /\ IF ~AgreesWithFirst(coll, submissions)
                   THEN /\ registry' = "Failed"
                        /\ report' = [node |-> n,
                                      diff |-> SymDiff(Range(coll),
                                                       Range(submissions[1].collection))]
                        /\ UNCHANGED <<collection, workqueue, pending, sent, scopes>>
                   ELSE IF AllSubmitted(subs)
                   THEN LET canonical == CanonicalOrder(subs)
                            st == RefillAll(
                                    [queue   |-> BuildUnits(scopes, canonical, <<>>),
                                     pending |-> pending, sent |-> sent],
                                    nodes, watermark)
                        IN  /\ registry' = "Verified"
                            /\ collection' = canonical
                            /\ scopes' = ScopesAfterBuild(scopes, canonical)
                            /\ workqueue' = st.queue
                            /\ pending' = st.pending
                            /\ sent' = st.sent
                            /\ UNCHANGED report
                   ELSE UNCHANGED <<registry, collection, report, workqueue,
                                    pending, sent, scopes>>
    /\ UNCHANGED <<pc, scope_filename, scope_file, log, rows_read, error>>
    /\ UNCHANGED <<callVars, confVars, nodes, gone, done, finished, twin>>

\* a node counted as Finished as soon as the pool is empty
PoolDrained(st, n) == PendingCount(st.queue) = 0

\* whether node n is to be marked Finished after a completion (spec 4.4): the
\* pool is empty and n's pending count has reached 0
NodeFinished(st, n) == PendingCount(st.queue) = 0 /\ st.pending[n] = {}

\* onUnitComplete(n, u): completeUnit is idempotent, so a unit already complete
\* changes nothing; otherwise n's pending count goes down by one, n is refilled
\* up to the watermark, and n is Finished when the pool is empty and nothing is
\* pending on it
UnitComplete(n, u) ==
    /\ pc = "constructed"
    /\ registry # "Failed"
    /\ n \in Range(nodes)
    /\ \E i \in 1..Len(sent) : sent[i].node = n /\ sent[i].scope = u
    /\ IF u \notin pending[n]
       THEN UNCHANGED <<workqueue, pending, sent, done, finished>>
       ELSE LET st == Refill([queue   |-> workqueue,
                              pending |-> [pending EXCEPT ![n] = @ \ {u}],
                              sent    |-> sent],
                             n, watermark)
            IN  /\ workqueue' = st.queue
                /\ pending' = st.pending
                /\ sent' = st.sent
                /\ done' = done \cup {[node |-> n, scope |-> u]}
                /\ finished' = IF NodeFinished(st, n)
                               THEN finished \cup {n} ELSE finished
    /\ UNCHANGED <<ctorVars, callVars, confVars, registry, submissions, collection,
                   report, nodes, gone, twin>>

\* onNodeDisconnected(n): the node state is destroyed; what n held is not
\* reassigned here
NodeDisconnected(n) ==
    /\ pc = "constructed"
    /\ registry # "Failed"
    /\ n \in Range(nodes)
    /\ nodes' = SelectSeq(nodes, LAMBDA m : m # n)
    /\ gone' = gone \cup {n}
    /\ pending' = [pending EXCEPT ![n] = {}]
    /\ UNCHANGED <<ctorVars, callVars, confVars, registry, submissions, collection,
                   report, workqueue, sent, done, finished, twin>>

\* the second run, begun, with st for its pool, pending sets and sendUnit calls
Begun(st) ==
    [begun |-> TRUE, queue |-> st.queue, pending |-> st.pending, sent |-> st.sent]

\* A second run on the same canonical collection, table and registered nodes:
\* its pool is built and its initial batches handed out as in the first
TwinBegin ==
    /\ pc = "constructed"
    /\ registry = "Verified"
    /\ ~twin.begun
    /\ twin' = Begun(RefillAll([queue   |-> BuildUnits(scopes, collection, <<>>),
                                pending |-> [n \in Nodes |-> {}],
                                sent    |-> <<>>],
                               nodes, watermark))
    /\ UNCHANGED <<ctorVars, callVars, confVars, registry, submissions, collection,
                   report, workqueue, nodes, gone, pending, sent, done, finished>>

\* onUnitComplete(n, u) in the second run, whose completion events arrive in
\* an order of their own
TwinComplete(n, u) ==
    /\ pc = "constructed"
    /\ twin.begun
    /\ n \in Range(nodes)
    /\ u \in twin.pending[n]
    /\ twin' = Begun(Refill([queue   |-> twin.queue,
                             pending |-> [twin.pending EXCEPT ![n] = @ \ {u}],
                             sent    |-> twin.sent],
                            n, watermark))
    /\ UNCHANGED <<ctorVars, callVars, confVars, registry, submissions, collection,
                   report, workqueue, nodes, gone, pending, sent, done, finished>>

\* ---------------------------------------------------------------- inputs
\* what a node id is written with: a name character, "[" and "::"
Tokens == {<<"a">>, <<"[">>, SEP}

\* the strings of at most n tokens
RECURSIVE TokenStrings(_)
TokenStrings(n) ==
    IF n = 0 THEN {Empty}
    ELSE LET shorter == TokenStrings(n - 1)
         IN  shorter \cup { s \o t : s \in shorter, t \in Tokens }

\* the node ids drawn as inputs: the non-empty strings of at most MaxTokens tokens
NodeIds == TokenStrings(MaxTokens) \ {Empty}

\* the node ids of the shape of the docstring (lines 59-61), file::function or
\* file::Class::function, each name non-empty, then possibly "[" and parameters
ShapedIds ==
    { id \in NodeIds :
        LET parts == Split(StripParametrization(id), SEP)
        IN  /\ Len(parts) \in {2, 3}
            /\ \A i \in 1..Len(parts) : parts[i] # Empty }

\* the scope names a file row may give, the empty one included
ScopeNames == {Empty, <<"S">>, <<"T">>}

\* the keys of a table that a lookup for id can address: the empty string, id
\* and the prefixes of id that end where a "::" or a "[" begins
KeysFor(id) ==
    { Take(id, n) : n \in { m \in 0..Len(id) :
          \/ m = 0
          \/ m = Len(id)
          \/ (m < Len(id) /\ id[m + 1] = "[")
          \/ (m + 2 <= Len(id) /\ SubSeq(id, m + 1, m + 2) = SEP) } }

\* a set of rows in some order
RECURSIVE SetToSeq(_)
SetToSeq(S) ==
    IF S = {} THEN <<>>
    ELSE LET x == CHOOSE y \in S : TRUE IN <<x>> \o SetToSeq(S \ {x})

\* the scopes files of at most MaxEntries two-column rows, one per key, whose
\* keys are keys a lookup for id can address
FilesFor(id) ==
    UNION { { SetToSeq({ <<k, f[k]>> : k \in K }) : f \in [K -> ScopeNames] } :
            K \in { J \in SUBSET KeysFor(id) : Cardinality(J) <= MaxEntries } }

\* the rows of the scopes files drawn for __init__: rows of two columns over two
\* keys, and rows of zero, one and three columns
CtorRows ==
    { <<k, v>> : k \in {<<"a">>, <<"a", ":", ":", "a">>}, v \in ScopeNames }
        \cup { <<>>, <<<<"a">>>>, <<<<"a">>, <<"S">>, <<"T">>>> }

\* the sequences over S of length at most n
RECURSIVE SeqsUpTo(_, _)
SeqsUpTo(S, n) ==
    IF n = 0 THEN {<<>>}
    ELSE LET shorter == SeqsUpTo(S, n - 1)
         IN  shorter \cup { Append(q, x) : q \in shorter, x \in S }

\* the node ids of the runs: two tests of a.py, one of b.py, one of c.py
T1 == <<"a", ":", ":", "t">>
T2 == <<"a", ":", ":", "u">>
T3 == <<"b", ":", ":", "t">>
T4 == <<"c", ":", ":", "t">>

\* the collections a node may submit: the four tests, the same in another
\* order, and one with another fourth test
Collections ==
    { <<T1, T2, T3, T4>>, <<T2, T1, T4, T3>>, <<T1, T2, T3, <<"d", ":", ":", "t">>>> }

\* the low-watermarks configured: the default, 2, and 1
Watermarks == {1, 2}

\* the scopes files of the runs: the grouping of spec 8 with a three-column row
\* added, one scope per test, and one scope per file but for c.py
RunFiles ==
    { << <<T1, <<"G">>>>, <<T2, <<"G">>>>, <<T3, <<"H">>, <<"x">>>>, <<T3, <<"H">>>> >>,
      << <<T1, <<"1">>>>, <<T2, <<"2">>>>, <<T3, <<"3">>>>, <<T4, <<"4">>>> >>,
      << <<<<"a">>, <<"A">>>>, <<<<"b">>, <<"B">>>> >> }

\* ------------------------------------------------------- specifications
\* the scheduler before any event: nothing submitted, no node, no unit
InitSched ==
    /\ registry = "Collecting"
    /\ submissions = <<>>
    /\ collection = <<>>
    /\ report = NoReport
    /\ workqueue = <<>>
    /\ nodes = <<>>
    /\ gone = {}
    /\ pending = [n \in Nodes |-> {}]
    /\ sent = <<>>
    /\ done = {}
    /\ finished = {}
    /\ twin = NoTwin

\* a run: construction from a configuration, then the events of the nodes
Init ==
    /\ pc = "new"
    /\ scope_filename \in {None, Empty, <<"f">>}
    /\ scope_file \in {NoFile} \cup RunFiles
    /\ scopes = EmptyDict
    /\ log = <<>>
    /\ rows_read = 0
    /\ error = "none"
    /\ nodeid = None
    /\ scope = None
    /\ lookups = <<>>
    /\ numnodes \in 1..(MaxNodes + 1)
    /\ watermark \in Watermarks
    /\ InitSched

Next ==
    \/ Construct
    \/ \E n \in Nodes : NodeRegistered(n)
    \/ \E n \in Nodes, coll \in Collections : SubmitCollection(n, coll)
    \/ \E n \in Nodes : \E i \in 1..Len(sent) : UnitComplete(n, sent[i].scope)
    \/ \E n \in Nodes : NodeDisconnected(n)

Spec == Init /\ [][Next]_vars

\* the events of a run in which no unit is lost: a node disconnects only when
\* nothing is pending on it
NextLive ==
    \/ Construct
    \/ \E n \in Nodes : NodeRegistered(n)
    \/ \E n \in Nodes, coll \in Collections : SubmitCollection(n, coll)
    \/ \E n \in Nodes : \E i \in 1..Len(sent) : UnitComplete(n, sent[i].scope)
    \/ \E n \in Nodes : pending[n] = {} /\ NodeDisconnected(n)

\* a node that holds a unit completes one in the end
CompletionsArrive ==
    \A n \in Nodes : WF_vars(\E i \in 1..Len(sent) : UnitComplete(n, sent[i].scope))

\* the runs in which every sent unit gets its completion event
SpecLive == Init /\ [][NextLive]_vars /\ CompletionsArrive

\* construction alone, over every configuration and scopes file of the bounds
InitCtor ==
    /\ pc = "new"
    /\ scope_filename \in {None, Empty, <<"f">>}
    /\ scope_file \in {NoFile} \cup SeqsUpTo(CtorRows, MaxRows)
    /\ scopes = EmptyDict
    /\ log = <<>>
    /\ rows_read = 0
    /\ error = "none"
    /\ nodeid = None
    /\ scope = None
    /\ lookups = <<>>
    /\ InitSched
    /\ numnodes = 1
    /\ watermark = 1

NextCtor == Construct

SpecCtor == InitCtor /\ [][NextCtor]_vars

\* two runs side by side: the nodes register and submit in registration order,
\* the registry is verified, both runs have their pool and initial batches, and
\* each run then takes its completion events in its own order
NextPair ==
    \/ Construct
    \/ \E n \in Nodes : registry = "Collecting" /\ NodeRegistered(n)
    \/ \E n \in Nodes, coll \in Collections :
          /\ Len(submissions) < Len(nodes)
          /\ n = nodes[Len(submissions) + 1]
          /\ SubmitCollection(n, coll)
    \/ \E n \in Nodes : \E i \in 1..Len(sent) :
          twin.begun /\ UnitComplete(n, sent[i].scope)
    \/ TwinBegin
    \/ \E n \in Nodes : \E i \in 1..Len(twin.sent) : TwinComplete(n, twin.sent[i].scope)

SpecPair == Init /\ [][NextPair]_vars

\* _split_scope alone: a scheduler constructed from a scopes file, and a node id
InitResolve ==
    /\ pc = "constructed"
    /\ scope_filename = <<"f">>
    /\ nodeid \in NodeIds
    /\ scope_file \in FilesFor(nodeid)
    /\ scopes = LoadScopes(scope_file).scopes
    /\ log = <<>>
    /\ rows_read = Len(scope_file)
    /\ error = "none"
    /\ scope = None
    /\ lookups = <<>>
    /\ InitSched
    /\ numnodes = 1
    /\ watermark = 1

NextResolve == SplitScopeCall

\* the same, for the node ids of the documented shape only
InitShaped == InitResolve /\ nodeid \in ShapedIds

SpecShaped == InitShaped /\ [][NextResolve]_vars

SpecResolve == InitResolve /\ [][NextResolve]_vars

\* ------------------------------------------------ the chain, as specified
\* id without its parametrization suffix: what precedes the first "["
BeforeFirstBracket(id) ==
    LET at == { i \in 1..Len(id) : id[i] = "[" }
    IN  IF at = {} THEN id
        ELSE Take(id, (CHOOSE i \in at : \A j \in at : i <= j) - 1)

\* where the "::" before the last segment of s begins; 0 when s is one segment
LastSepAt(s) ==
    LET at == { i \in 1..(Len(s) - 1) : s[i] = ":" /\ s[i + 1] = ":" }
    IN  IF at = {} THEN 0 ELSE CHOOSE i \in at : \A j \in at : j <= i

\* s without its last "::"-delimited segment
WithoutLastSegment(s) ==
    LET at == LastSepAt(s) IN IF at = 0 THEN Empty ELSE Take(s, at - 1)

\* the four keys of the chain of spec 4.1, each computed from id as given
SpecKeys(id) ==
    LET key3 == WithoutLastSegment(id)
    IN  <<id, BeforeFirstBracket(id), key3, WithoutLastSegment(key3)>>

\* no lookup of the chain of spec 4.1 finds an entry for id
NoChainHit(table, id) ==
    LET keys == SpecKeys(id) IN \A n \in 1..4 : keys[n] \notin DOMAIN table

\* the call has returned
Returned == scope # None

\* C1: when none of the four lookups of the chain finds an entry, _split_scope
\* returns the node id it was given, unchanged.
C1_FallbackIsOriginalId ==
    (Returned /\ NoChainHit(scopes, nodeid)) => scope = nodeid

\* C2: the scope key _split_scope returns is never the empty string.
C2_ScopeKeyNonEmpty == Returned => scope # Empty

\* C3: two distinct node ids for which no lookup of the chain hits resolve to
\* two distinct scope keys.
C3_UnmappedIdsStayApart ==
    (Returned /\ NoChainHit(scopes, nodeid)) =>
        \A other \in ShapedIds :
            (other # nodeid /\ NoChainHit(scopes, other))
                => split_scope(scopes, other) # scope

\* the first step of 1..4 that hits, given which steps hit; 0 when none does
FirstStep(hits) == IF hits = {} THEN 0 ELSE CHOOSE n \in hits : \A m \in hits : n <= m

\* the steps of the chain of spec 4.1 whose lookup finds a scope key (an entry
\* that is not the empty string)
SpecHits(table, id) ==
    LET keys == SpecKeys(id) IN { n \in 1..4 : Truthy(Get(table, keys[n])) }

\* C4 as stated: _split_scope returns the scope key of the first of the keys id,
\* id before its first "[", id without its last segment, id without its last
\* two segments that the table maps.
C4_FirstMatchWins_AsStated ==
    Returned =>
        LET hits == SpecHits(scopes, nodeid)
        IN  hits # {} => scope = scopes[SpecKeys(nodeid)[FirstStep(hits)]]

\* the keys the chain looks up when steps 3 and 4 start from the id without its
\* parametrization suffix
StrippedKeys(id) ==
    LET key2 == BeforeFirstBracket(id)
        key3 == WithoutLastSegment(key2)
    IN  <<id, key2, key3, WithoutLastSegment(key3)>>

\* the steps of that chain that are taken for id: step 2 only when id has a "[",
\* step 4 only when its key is not the empty string
StepsTaken(id) ==
    LET keys == StrippedKeys(id)
    IN  {1, 3} \cup (IF keys[2] # id THEN {2} ELSE {})
               \cup (IF keys[4] # Empty THEN {4} ELSE {})

\* the steps taken whose key has a non-empty entry
StrippedHits(table, id) ==
    LET keys == StrippedKeys(id)
    IN  { n \in StepsTaken(id) : Truthy(Get(table, keys[n])) }

\* C4, amended: _split_scope returns the entry of the first step taken whose key
\* has a non-empty entry, the keys of steps 3 and 4 being those of the id
\* without its parametrization suffix, whatever entries later steps have.
C4_FirstMatchWins ==
    Returned =>
        LET hits == StrippedHits(scopes, nodeid)
        IN  hits # {} => scope = scopes[StrippedKeys(nodeid)[FirstStep(hits)]]

\* C4 witness: the exact id has no entry, the id before its "[" is mapped to S, a
\* later step has another entry, and S is returned.
C4_Witness ==
    /\ Returned
    /\ nodeid \notin DOMAIN scopes
    /\ BeforeFirstBracket(nodeid) # nodeid
    /\ Get(scopes, BeforeFirstBracket(nodeid)) = <<"S">>
    /\ Get(scopes, StrippedKeys(nodeid)[3]) = <<"T">>
    /\ scope = <<"S">>

\* the key looked up at step n of the call, or None when the step made no lookup
KeyAt(n) ==
    LET at == { i \in 1..Len(lookups) : lookups[i].step = n }
    IN  IF at = {} THEN None ELSE lookups[CHOOSE i \in at : TRUE].key

\* C5 as stated: the key looked up at step 3 is the id as given without its last
\* segment, and the key looked up at step 4 the id as given without its last two.
C5_KeysFromOriginalId_AsStated ==
    Returned =>
        LET asGiven == SpecKeys(nodeid)
        IN  /\ KeyAt(3) \in {None, asGiven[3]}
            /\ KeyAt(4) \in {None, asGiven[4]}

\* C5, amended: the key looked up at step 3 is the id without its parametrization
\* suffix and without its last segment, the key looked up at step 4 that key
\* without its last segment; they are the keys of the id as given when it has
\* no "[".
C5_KeysFromStrippedId ==
    Returned =>
        LET keys == StrippedKeys(nodeid)
            asGiven == SpecKeys(nodeid)
        IN  /\ KeyAt(3) \in {None, keys[3]}
            /\ KeyAt(4) \in {None, keys[4]}
            /\ keys[2] = nodeid =>
                  /\ KeyAt(3) \in {None, asGiven[3]}
                  /\ KeyAt(4) \in {None, asGiven[4]}

\* C5 witness: a call on an id whose "[" suffix holds a "::" has looked up, at
\* steps 3 and 4, keys that are not those of the id as given.
C5_Witness ==
    /\ Returned
    /\ KeyAt(3) # None
    /\ KeyAt(4) # None
    /\ KeyAt(3) # SpecKeys(nodeid)[3]
    /\ KeyAt(4) # SpecKeys(nodeid)[4]

\* ------------------------------------------------------------ dispatch
\* the ids of the collection whose scope key is key, in the order of the collection
IdsOfScope(key) == SelectSeq(collection, LAMBDA id : split_scope(scopes, id) = key)

\* C6: no work unit is sent twice, to one node or to two; every sendUnit carries
\* the whole ordered id sequence of one work unit; no test id is sent twice, and
\* a unit that was sent is no longer in the pool.
C6_UnitsSentOnceAndWhole ==
    /\ \A i, j \in 1..Len(sent) :
          i # j => /\ sent[i].scope # sent[j].scope
                   /\ Range(sent[i].ids) \cap Range(sent[j].ids) = {}
    /\ \A i \in 1..Len(sent) :
          /\ sent[i].ids # <<>>
          /\ sent[i].ids = IdsOfScope(sent[i].scope)
          /\ \A k \in 1..Len(workqueue) : workqueue[k].scope # sent[i].scope

\* C6 witness: units have gone to two nodes, one of them a unit of two tests,
\* after a completion.
C6_Witness ==
    /\ \E i, j \in 1..Len(sent) : sent[i].node # sent[j].node
    /\ \E i \in 1..Len(sent) : Len(sent[i].ids) = 2
    /\ done # {}

\* an event for node n has just been processed by the dispatcher
DispatcherEvent(n) ==
    NodeRegistered(n) \/ \E i \in 1..Len(sent) : UnitComplete(n, sent[i].scope)

\* C7: right after a registration or completion event of node n, n holds at
\* least W pending units if the pool still has unassigned units.
C7_WatermarkMaintained ==
    [][\A n \in Nodes :
          DispatcherEvent(n) =>
              (PendingCount(workqueue') > 0 => Cardinality(pending'[n]) >= watermark)]_vars

\* C7 witness: a node that has completed a unit holds W pending units, W being
\* 2, while the pool is not empty.
C7_Witness ==
    /\ watermark = 2
    /\ PendingCount(workqueue) > 0
    /\ \E n \in Range(nodes) :
          /\ \E d \in done : d.node = n
          /\ Cardinality(pending[n]) = watermark

\* ------------------------------------------------------------ __init__
\* the rows of the file of exactly two columns
TwoColumnRows == { scope_file[i] : i \in { j \in 1..Len(scope_file) : Len(scope_file[j]) = 2 } }

\* how many rows of the file have another column count
MalformedRows == Cardinality({ j \in 1..Len(scope_file) : Len(scope_file[j]) # 2 })

\* C8: with a scopes file named and present, construction succeeds whatever rows
\* the file holds; each row that has not exactly two columns is skipped with one
\* diagnostic, and the table holds exactly the entries of the two-column rows.
C8_MalformedRowsSkipped ==
    /\ (pc # "new" /\ Truthy(scope_filename) /\ scope_file # NoFile) => pc = "constructed"
    /\ pc = "constructed" =>
          /\ Len(log) = MalformedRows
          /\ \A i \in 1..Len(log) : log[i] = IgnoredRow
          /\ DOMAIN scopes = { r[1] : r \in TwoColumnRows }
          /\ \A k \in DOMAIN scopes : <<k, scopes[k]>> \in TwoColumnRows

\* C8 witness: a scheduler constructed from a file with a three-column row and a
\* two-column row.
C8_Witness ==
    /\ pc = "constructed"
    /\ \E i \in 1..Len(scope_file) : Len(scope_file[i]) = 3
    /\ \E i \in 1..Len(scope_file) : Len(scope_file[i]) = 2
    /\ Len(log) = 1
    /\ scopes # EmptyDict

\* C9: with no scopes file configured (the name unset or empty) construction
\* ends in the RuntimeError; no row is read, no table is loaded, and nothing is
\* ever submitted, registered, pooled or sent.
C9_NoScopesFileIsFatal ==
    ~Truthy(scope_filename) =>
        /\ pc \in {"new", "failed"}
        /\ pc = "failed" => error = "RuntimeError: no scopes file specified"
        /\ rows_read = 0 /\ scopes = EmptyDict /\ log = <<>>
        /\ registry = "Collecting" /\ submissions = <<>> /\ nodes = <<>>
        /\ workqueue = <<>> /\ sent = <<>>

\* C9 witness: construction has failed on an empty name although a file of rows
\* was there to read.
C9_Witness ==
    /\ pc = "failed"
    /\ scope_filename = Empty
    /\ scope_file # NoFile /\ Len(scope_file) > 0

LastRowOf(k) ==
    LET at == { i \in 1..Len(scope_file) :
                  Len(scope_file[i]) = 2 /\ scope_file[i][1] = k }
    IN  scope_file[CHOOSE i \in at : \A j \in at : j <= i]

\* C16: when several two-column rows of the file have the same key, the table
\* built by __init__ gives that key the scope of the last of them.
C16_LastRecordWins ==
    pc = "constructed" => \A k \in DOMAIN scopes : scopes[k] = LastRowOf(k)[2]

\* C16 witness: a scheduler constructed from a file whose two rows give one key
\* two different scopes.
C16_Witness ==
    /\ pc = "constructed"
    /\ Len(scope_file) = 2
    /\ Len(scope_file[1]) = 2 /\ Len(scope_file[2]) = 2
    /\ scope_file[1][1] = scope_file[2][1]
    /\ scope_file[1][2] # scope_file[2][2]
    /\ scopes[scope_file[1][1]] = scope_file[2][2]

\* the file part of a node id: what precedes its first "::"
FilePart(id) == Split(id, SEP)[1]

\* C17: when no entry of the table applies to a node id, _split_scope returns
\* its file part, so that of the ids without an applicable entry those of one
\* file, and only those, get the same scope.
C17_UnmappedGroupedByFile ==
    (Returned /\ StrippedHits(scopes, nodeid) = {}) =>
        /\ scope = FilePart(nodeid)
        /\ \A other \in ShapedIds :
              StrippedHits(scopes, other) = {} =>
                  (FilePart(other) = FilePart(nodeid)
                      <=> split_scope(scopes, other) = scope)

\* the table without its entries whose scope is the empty string
NonEmptyEntries(table) ==
    [k \in { x \in DOMAIN table : table[x] # Empty } |-> table[k]]

\* C19: an entry whose scope is the empty string counts as no entry at every
\* step: the call returns what it returns, and looks up the keys it looks up,
\* when those entries are taken out of the table, and a lookup that found the
\* empty string is never the one the call stopped at.
C19_EmptyEntryIsNoMatch ==
    Returned =>
        LET run == split_scope_run(NonEmptyEntries(scopes), nodeid)
        IN  /\ scope = run.ret
            /\ lookups = run.gets
            /\ \A i \in 1..Len(lookups) :
                  Get(scopes, lookups[i].key) = Empty =>
                      \/ i < Len(lookups)
                      \/ scope = StrippedKeys(nodeid)[4]

\* C19 witness: the exact id has an entry with the empty scope, a later step's
\* key is mapped to S, and the call has gone on to return S.
C19_Witness ==
    /\ Returned
    /\ Get(scopes, nodeid) = Empty
    /\ Len(lookups) > 1
    /\ Get(scopes, lookups[Len(lookups)].key) = <<"S">>
    /\ scope = <<"S">>

\* p is a prefix of s
IsPrefix(p, s) == Len(p) <= Len(s) /\ Take(s, Len(p)) = p

\* C20: what _split_scope returns is the non-empty entry of one of the keys of
\* the chain for the id, or a prefix of the id.
C20_ReturnedFromTableOrId ==
    Returned =>
        LET keys == StrippedKeys(nodeid)
        IN  \/ \E n \in StrippedHits(scopes, nodeid) : scope = scopes[keys[n]]
            \/ IsPrefix(scope, nodeid)

\* C20 witness: a call that no entry applied to has returned a prefix of the id
\* that is neither empty nor the id.
C20_Witness ==
    /\ Returned
    /\ StrippedHits(scopes, nodeid) = {}
    /\ scope # Empty
    /\ scope # nodeid
    /\ IsPrefix(scope, nodeid)

\* ------------------------------------------------------- verification
\* every collection submitted is set-equal to every other
AllSetEqual ==
    \A i, j \in 1..Len(submissions) :
        Range(submissions[i].collection) = Range(submissions[j].collection)

AllUnits ==
    [i \in 1..Len(sent) |-> [scope |-> sent[i].scope, ids |-> sent[i].ids]] \o workqueue

\* C14: work units exist, in the pool, sent or pending, only when the registry
\* is Verified, every expected collection being in and all of them set-equal;
\* never when it is Failed; and the set of units changes at one step only, the
\* one that verifies the registry.
C14_UnitsOnlyOnceVerified ==
    /\ []((AllUnits # <<>> \/ \E n \in Nodes : pending[n] # {}) =>
             (registry = "Verified" /\ Len(submissions) = numnodes /\ AllSetEqual))
    /\ [](registry = "Verified" => AllUnits # <<>>)
    /\ [][AllUnits' # AllUnits =>
              (registry = "Collecting" /\ registry' = "Verified" /\ AllUnits = <<>>)]_vars

\* C14 witness: with two nodes expected, the registry is Verified, units have
\* been sent and others are still in the pool.
C14_Witness ==
    /\ registry = "Verified"
    /\ numnodes = 2
    /\ sent # <<>>
    /\ workqueue # <<>>

\* where in the canonical collection a scope key is first seen
FirstSeenAt(key) ==
    LET at == { i \in 1..Len(collection) : split_scope(scopes, collection[i]) = key }
    IN  CHOOSE i \in at : \A j \in at : i <= j

\* C15: once the pool is built, the units (those handed out, in the order they
\* were handed out, then those of the pool) partition the canonical collection:
\* every id is in exactly one unit, the ids of a unit are those of its scope
\* key, in the order of the collection, and the units follow the order in which
\* their scope keys are first seen in the collection.
C15_PoolIsOrderedPartition ==
    registry = "Verified" =>
        \A units \in {AllUnits} :
        \A keys \in {[i \in 1..Len(collection) |-> split_scope(scopes, collection[i])]} :
            LET at(k)   == { i \in 1..Len(collection) : keys[i] = units[k].scope }
                seen(k) == CHOOSE i \in at(k) : \A j \in at(k) : i <= j
            IN  /\ \A i \in 1..Len(collection) :
                      Cardinality({ k \in 1..Len(units) :
                                      collection[i] \in Range(units[k].ids) }) = 1
                /\ \A k \in 1..Len(units) :
                      /\ units[k].ids # <<>>
                      /\ Range(units[k].ids) = { collection[i] : i \in at(k) }
                      /\ units[k].ids =
                            SelectSeq(collection, LAMBDA id : id \in Range(units[k].ids))
                /\ \A k, l \in 1..Len(units) : k < l => seen(k) < seen(l)

\* C15 witness: a unit of two tests and a later-seen unit have been handed out,
\* in that order, and a unit seen later still is in the pool.
C15_Witness ==
    /\ registry = "Verified"
    /\ Len(sent) >= 2
    /\ Len(sent[1].ids) = 2
    /\ workqueue # <<>>
    /\ done # {}

\* the node ids of the runs
RunIds == UNION { Range(coll) : coll \in Collections }

\* C18: once the scheduler is constructed no step changes self.scopes, whether
\* a registration, a submission (which resolves every id to build the pool), a
\* completion or a disconnection, and _split_scope gives each id the same scope
\* key after the step as before.
C18_ScopesNeverChanged ==
    [][pc = "constructed" =>
          /\ scopes' = scopes
          /\ \A id \in RunIds : split_scope(scopes', id) = split_scope(scopes, id)]_vars

\* C18 witness: a run from a table with entries in which the pool was built, a
\* unit completed and a node disconnected, the table being the one __init__ read.
C18_Witness ==
    /\ pc = "constructed"
    /\ DOMAIN scopes # {}
    /\ registry = "Verified"
    /\ done # {}
    /\ gone # {}
    /\ scopes = LoadScopes(scope_file).scopes

\* ------------------------------------------------------- completion
\* the nodes that were sent a unit
Served == { sent[i].node : i \in 1..Len(sent) }

\* the run is complete: every registered node is Finished
RunComplete == nodes # <<>> /\ Range(nodes) \subseteq finished

\* a registered node that was sent a unit is Finished exactly when the pool is
\* empty and nothing is pending on it, and only such nodes are ever Finished
FinishedWhenDrained ==
    /\ finished \subseteq Served
    /\ \A n \in Range(nodes) \cap Served :
          n \in finished <=> (registry = "Verified" /\ workqueue = <<>> /\ pending[n] = {})

\* every unit that was sent is complete
AllSentDone ==
    \A i \in 1..Len(sent) : [node |-> sent[i].node, scope |-> sent[i].scope] \in done

Comparable(p, q) ==
    \A i \in 1..Len(p) : i <= Len(q) => p[i] = q[i]

\* the scope keys of the units of a list of sendUnit calls
ScopesOf(calls) == [i \in 1..Len(calls) |-> calls[i].scope]

\* how many sendUnit calls the initial batches make: W for each registered
\* node, as long as there are units
InitialBatch ==
    LET units  == Len(sent) + Len(workqueue)
        wanted == watermark * Len(nodes)
    IN  IF units < wanted THEN units ELSE wanted

====
